---- MODULE Spec2Model ----
(***************************************************************************)
(* A model of package cookiesession (src/cookiesession.go): the Session    *)
(* codec (MarshalBinary / UnmarshalBinary) and the Store (New, Get, Save,  *)
(* Clear).                                                                 *)
(*                                                                         *)
(* Bytes are the integers 0..255 and byte strings are sequences of them.   *)
(* A cookie value is the sequence of its ASCII codes.  A time.Time is the  *)
(* whole seconds since the Unix epoch, a 64-bit number kept in three parts,*)
(* and the clock ticks past that second, Second ticks to a second.  A      *)
(* reading of the clock and a time.Duration are numbers of ticks.          *)
(*                                                                         *)
(* The libraries the package calls are modelled by what they do:           *)
(*   encoding/base64  bit for bit (StdEncoding: padded, not strict);       *)
(*   encoding/binary  big-endian, byte for byte;                           *)
(*   go.uuid          NewV4 = 16 random bytes with the version and variant *)
(*                    bits set, FromBytes = a length check;                *)
(*   crypto/rand      an ideal source: a read either fails or returns      *)
(*                    bytes that no earlier read returned;                 *)
(*   crypto/sha256    a digest without collisions on the model's secrets;  *)
(*   nacl/secretbox   an ideal authenticated cipher: Open accepts a box    *)
(*                    exactly when Seal produced it under the same key and *)
(*                    nonce (the variable boxes is Seal's record);         *)
(*   net/http         Request.Cookie finds the named cookie or fails, and  *)
(*                    SetCookie appends a cookie to the response.          *)
(***************************************************************************)
EXTENDS Integers, Sequences, FiniteSets, TLC

\* ------------------------------------------------------------ bounds

\* Clock ticks in one second (time.Second is 10^9 ns; the model's clock is coarser).
Second == 3

\* The clock reads StartClock in the initial state, the last tick of a second, and
\* runs for MaxTicks ticks, past the expiry of a cookie set in the initial state.
StartClock == 257 * Second - 1
MaxTicks == Second + 1

\* Reads of the random source in one behaviour.
MaxDraws == 3

\* Cookies set on responses in one behaviour.
MaxCookies == 2

\* ---------------------------------------------------- program constants

\* var nonce [24]byte
NonceSize == 24

\* Key [32]byte
KeySize == 32

\* secretbox.Overhead: the authenticator secretbox.Seal puts before the ciphertext.
Overhead == 16

\* uuid.UUID is [16]byte (uuid.Size).
UUIDSize == 16

\* The Unix timestamp is 8 bytes (PutUint64).
TimeSize == 8

\* len(data) < 8+16+16+16
HeaderSize == TimeSize + UUIDSize + UUIDSize + UUIDSize

\* ------------------------------------------------------------ bytes

Byte == 0..255

Zeros(n) == [i \in 1..n |-> 0]

\* s[from+1 .. to] in the model's 1-based sequences: Go's s[from:to].
Slice(s, from, to) == SubSeq(s, from + 1, to)

\* The n low bytes of the two's complement of u, high byte first.
RECURSIVE BigEndianBytes(_, _)
BigEndianBytes(u, n) ==
    IF n = 0 THEN <<>> ELSE Append(BigEndianBytes(u \div 256, n - 1), u % 256)

\* The number the bytes of b spell, high byte first.
RECURSIVE BigEndianValue(_)
BigEndianValue(b) ==
    IF b = <<>> THEN 0
    ELSE 256 * BigEndianValue(SubSeq(b, 1, Len(b) - 1)) + b[Len(b)]

\* The two's complement number the bytes of b spell.  With the top bit set it is
\* -1 - (the complement of the bits).
BigEndianSigned(b) ==
    IF b[1] >= 128
    THEN -1 - BigEndianValue([i \in 1..Len(b) |-> 255 - b[i]])
    ELSE BigEndianValue(b)

\* An int64 is kept in three parts, [hi, mid, lo]: it is the number
\* hi * 2^48 + mid * 2^24 + lo with mid and lo in 0 .. 2^24 - 1 and hi in
\* -2^15 .. 2^15 - 1, so lo is its 24 low bits, mid the 24 bits above them and
\* hi, with the sign, the 16 bits on top.  Every int64 is one such triple.
Limb == 2 ^ 24

\* The int64 hi * 2^48 + mid * 2^24 + lo for a lo, and so a mid, of any size.
Carry(hi, mid, lo) ==
    [hi |-> hi + (mid + lo \div Limb) \div Limb,
     mid |-> (mid + lo \div Limb) % Limb,
     lo |-> lo % Limb]

\* int64(n)
Wide(n) == Carry(0, 0, n)

\* w + n
WideAdd(w, n) == Carry(w.hi, w.mid, w.lo + n)

\* w - v, when it is a number TLC holds.
WideSub(w, v) == ((w.hi - v.hi) * Limb + (w.mid - v.mid)) * Limb + (w.lo - v.lo)

\* binary.BigEndian.PutUint64(b, uint64(w)): the 64 bits of w, high byte first.
PutUint64(w) == BigEndianBytes(w.hi, 2) \o BigEndianBytes(w.mid, 3) \o BigEndianBytes(w.lo, 3)

\* int64(binary.BigEndian.Uint64(b)): the first 8 bytes of b read as a two's
\* complement number.
Int64(b) ==
    [hi |-> BigEndianSigned(SubSeq(b, 1, 2)),
     mid |-> BigEndianValue(SubSeq(b, 3, 5)),
     lo |-> BigEndianValue(SubSeq(b, 6, 8))]

\* ------------------------------------------------------------ base64

PadChar == 61

\* encodeStd: "ABCDEFGHIJKLMNOPQRSTUVWXYZabcdefghijklmnopqrstuvwxyz0123456789+/"
EncodeChar(v) ==
    IF v < 26 THEN 65 + v
    ELSE IF v < 52 THEN 97 + (v - 26)
    ELSE IF v < 62 THEN 48 + (v - 52)
    ELSE IF v = 62 THEN 43
    ELSE 47

\* decodeMap: the 6-bit value of an alphabet character, 255 for any other byte.
DecodeChar(c) ==
    IF c >= 65 /\ c <= 90 THEN c - 65
    ELSE IF c >= 97 /\ c <= 122 THEN c - 97 + 26
    ELSE IF c >= 48 /\ c <= 57 THEN c - 48 + 52
    ELSE IF c = 43 THEN 62
    ELSE IF c = 47 THEN 63
    ELSE 255

\* base64.StdEncoding.EncodeToString: every three bytes become four characters,
\* and a last group of one or two bytes is padded to four with '='.
EncodeToString(b) ==
    LET n == Len(b)
        at(i) == IF i <= n THEN b[i] ELSE 0
        char(j) ==
            LET g == (j - 1) \div 4
                k == (j - 1) % 4
                x1 == at(3 * g + 1)
                x2 == at(3 * g + 2)
                x3 == at(3 * g + 3)
            IN  IF k = 0 THEN EncodeChar(x1 \div 4)
                ELSE IF k = 1 THEN EncodeChar((x1 % 4) * 16 + x2 \div 16)
                ELSE IF k = 2 THEN
                    IF 3 * g + 2 > n THEN PadChar ELSE EncodeChar((x2 % 16) * 4 + x3 \div 64)
                ELSE IF 3 * g + 3 > n THEN PadChar ELSE EncodeChar(x3 % 64)
    IN  [j \in 1..(4 * ((n + 2) \div 3)) |-> char(j)]

IsAlphabet(c) == DecodeChar(c) # 255

\* Encoding.Decode over an input without line breaks: [err, data].  The input is
\* quanta of four alphabet characters, the last of which may end in "=" or "==".
\* The encoding is not strict: the bits a padded last quantum leaves over are
\* dropped unread.
DecodeQuanta(s) ==
    LET n == Len(s)
        pads == IF n >= 4 /\ s[n] = PadChar
                THEN (IF s[n - 1] = PadChar THEN 2 ELSE 1)
                ELSE 0
        value(j) == IF j > n - pads THEN 0 ELSE DecodeChar(s[j])
        byte(i) ==
            LET g == (i - 1) \div 3
                k == (i - 1) % 3
                v1 == value(4 * g + 1)
                v2 == value(4 * g + 2)
                v3 == value(4 * g + 3)
                v4 == value(4 * g + 4)
            IN  IF k = 0 THEN v1 * 4 + v2 \div 16
                ELSE IF k = 1 THEN (v2 % 16) * 16 + v3 \div 4
                ELSE (v3 % 4) * 64 + v4
    IN  IF n % 4 # 0 \/ \E j \in 1..(n - pads) : ~IsAlphabet(s[j])
        THEN [err |-> TRUE, data |-> <<>>]
        ELSE [err |-> FALSE, data |-> [i \in 1..((n \div 4) * 3 - pads) |-> byte(i)]]

\* base64.StdEncoding.DecodeString: '\r' and '\n' are skipped wherever they stand.
DecodeString(s) == DecodeQuanta(SelectSeq(s, LAMBDA c : c \notin {10, 13}))

\* ------------------------------------------------------ random source

\* The bytes of the c-th successful read of n bytes from crypto/rand.Reader.  The
\* source is ideal: reads with different c return different bytes (c < 256), also
\* in what uuid.NewV4 keeps of them.
RandomBytes(c, n) == [i \in 1..n |-> (37 * c + 11 * i) % 256]

\* The outcome of one read: it fails, or it is the c-th successful read.
NoRandom == [ok |-> FALSE, c |-> 0]
Random(c) == [ok |-> TRUE, c |-> c]

\* ------------------------------------------------------------ uuid

\* uuid.Nil, the zero value of uuid.UUID.
NilUUID == Zeros(UUIDSize)

\* uuid.NewV4 on 16 random bytes: SetVersion(V4) and SetVariant(VariantRFC4122).
NewV4(r) == [r EXCEPT ![7] = (r[7] % 16) + 64, ![9] = (r[9] % 64) + 128]

\* uuid.FromBytes: fails unless it is given exactly 16 bytes.
FromBytes(b) == [err |-> Len(b) # UUIDSize, u |-> IF Len(b) = UUIDSize THEN b ELSE NilUUID]

\* ------------------------------------------------------------ Session

\* A time.Time is [sec, frac]: the whole seconds since the epoch, an int64, and
\* the ticks past that second, 0 .. Second - 1.

\* time.Time{}.Unix(): the zero time.Time (January 1, year 1, 00:00:00 UTC) lies
\* 62135596800 seconds before the epoch;
\* -62135596800 = -1 * 2^48 + 16773512 * 2^24 + 7211264.
ZeroUnix == [hi |-> -1, mid |-> 16773512, lo |-> 7211264]

\* time.Time{}: the zero time.Time.
ZeroTime == [sec |-> ZeroUnix, frac |-> 0]

\* Session{}: the zero value.
ZeroSession ==
    [Valid |-> FALSE, Time |-> ZeroTime, SID |-> NilUUID, UID |-> NilUUID,
     RealUID |-> NilUUID, State |-> <<>>]

\* time.Time.Unix: whole seconds since the epoch.
Unix(t) == t.sec

\* time.Unix(sec, 0)
TimeUnix(sec) == [sec |-> sec, frac |-> 0]

\* time.Time.Add(d), d a number of ticks.
Add(t, d) == [sec |-> WideAdd(t.sec, (t.frac + d) \div Second), frac |-> (t.frac + d) % Second]

\* time.Time.Sub(u): the ticks from u to t, when it is a number TLC holds (the
\* times of the model that are not the zero Time lie within moments of the epoch).
Sub(t, u) == WideSub(t.sec, u.sec) * Second + (t.frac - u.frac)

\* The time.Time of a reading n of the clock: n ticks after the epoch.
Date(n) == Add(TimeUnix(Wide(0)), n)

\* The reading of the clock at the time t: the ticks from the epoch to t.
Ticks(t) == Sub(t, TimeUnix(Wide(0)))

\* A mutant of UnmarshalBinary: the receiver is reset before the length is checked.
UnmarshalBinaryClears(s, data) ==
    IF Len(data) < HeaderSize THEN [err |-> TRUE, s |-> ZeroSession]
    ELSE [err |-> FALSE,
          s |-> [Valid |-> TRUE,
                 Time |-> TimeUnix(Int64(data)),
                 SID |-> Slice(data, 8, 24),
                 UID |-> Slice(data, 24, 40),
                 RealUID |-> Slice(data, 40, 56),
                 State |-> Slice(data, 56, Len(data))]]

\* A mutant of UnmarshalBinary: uid is read where realUID lies.
UnmarshalBinaryShifted(s, data) ==
    IF Len(data) < HeaderSize THEN [err |-> TRUE, s |-> s]
    ELSE [err |-> FALSE,
          s |-> [Valid |-> TRUE,
                 Time |-> TimeUnix(Int64(data)),
                 SID |-> Slice(data, 8, 24),
                 UID |-> Slice(data, 40, 56),
                 RealUID |-> Slice(data, 40, 56),
                 State |-> Slice(data, 56, Len(data))]]

\* (s *Session) UnmarshalBinary(data): [err, s], s the receiver afterwards.
UnmarshalBinary(s, data) ==
    IF Len(data) < 8 + 16 + 16 + 16 THEN [err |-> TRUE, s |-> s]
    ELSE LET sid == FromBytes(Slice(data, 8, 24))
             uid == FromBytes(Slice(data, 24, 40))
             realUID == FromBytes(Slice(data, 40, 56))
         IN  IF sid.err \/ uid.err \/ realUID.err THEN [err |-> TRUE, s |-> s]
             ELSE [err |-> FALSE,
                   s |-> [Valid |-> TRUE,
                          Time |-> TimeUnix(Int64(data)),
                          SID |-> sid.u,
                          UID |-> uid.u,
                          RealUID |-> realUID.u,
                          State |-> Slice(data, 56, Len(data))]]

\* A mutant of MarshalBinary: Time is rounded to the nearest second.
MarshalBinaryRounded(s) ==
    PutUint64(Unix(Add(s.Time, Second \div 2))) \o s.SID \o s.UID \o s.RealUID \o s.State

\* A mutant of MarshalBinary: the length of State is written before it.
MarshalBinaryLengthPrefixed(s) ==
    PutUint64(Unix(s.Time)) \o s.SID \o s.UID \o s.RealUID \o <<Len(s.State)>> \o s.State

\* A mutant of MarshalBinary: State is left out of the record.
MarshalBinaryNoState(s) == PutUint64(Unix(s.Time)) \o s.SID \o s.UID \o s.RealUID

\* (s *Session) MarshalBinary(): the error is always nil.
MarshalBinary(s) ==
    PutUint64(Unix(s.Time)) \o s.SID \o s.UID \o s.RealUID \o s.State

\* ------------------------------------------------------------ secretbox

\* The box Seal makes for the id-th distinct (key, nonce, message): a 16-byte
\* authenticator, then as many bytes as the message has.  Boxes of different id
\* differ in every authenticator byte.
NewBox(id, message) ==
    [i \in 1..Overhead |-> (29 * id + 7 * i) % 256]
    \o [i \in 1..Len(message) |-> (message[i] + 101 * id + 3 * i) % 256]

\* The box of secretbox.Seal(nil, message, nonce, key), bx being what was sealed before.
SealBox(bx, message, nonce, key) ==
    IF \E e \in bx : e.key = key /\ e.nonce = nonce /\ e.message = message
    THEN (CHOOSE e \in bx : e.key = key /\ e.nonce = nonce /\ e.message = message).box
    ELSE NewBox(Cardinality(bx) + 1, message)

\* bx after that Seal.
Sealed(bx, message, nonce, key) ==
    bx \cup {[key |-> key, nonce |-> nonce, message |-> message,
              box |-> SealBox(bx, message, nonce, key)]}

\* A mutant of Open: a box opens only while its key has sealed nothing else.
OpenOnlyOne(bx, box, nonce, key) ==
    IF /\ \E e \in bx : e.key = key /\ e.nonce = nonce /\ e.box = box
       /\ Cardinality({e \in bx : e.key = key}) = 1
    THEN [ok |-> TRUE,
          buf |-> (CHOOSE e \in bx : e.key = key /\ e.nonce = nonce /\ e.box = box).message]
    ELSE [ok |-> FALSE, buf |-> <<>>]

\* secretbox.Open(nil, box, nonce, key): [ok, buf].
Open(bx, box, nonce, key) ==
    IF \E e \in bx : e.key = key /\ e.nonce = nonce /\ e.box = box
    THEN [ok |-> TRUE,
          buf |-> (CHOOSE e \in bx : e.key = key /\ e.nonce = nonce /\ e.box = box).message]
    ELSE [ok |-> FALSE, buf |-> <<>>]

\* ------------------------------------------------------------ Store

\* sha256 of the secret: 32 bytes, different for the model's different secrets.
RECURSIVE Sum(_)
Sum(s) == IF s = <<>> THEN 0 ELSE (Head(s) + 31 * Sum(Tail(s))) % 251

Sum256(secret) == [i \in 1..KeySize |-> (Sum(secret) * (2 * i + 1) + i) % 256]

\* A mutant of New: the key does not depend on the secret.
NewFixedKey(name, secret, ttl) ==
    [Name |-> name, Secret |-> secret, HttpOnly |-> FALSE, Secure |-> FALSE,
     TTL |-> ttl, Key |-> Zeros(KeySize)]

\* New(name, secret, ttl)
New(name, secret, ttl) ==
    [Name |-> name, Secret |-> secret, HttpOnly |-> FALSE, Secure |-> FALSE,
     TTL |-> ttl, Key |-> Sum256(secret)]

\* ------------------------------------------------------------ net/http

\* A request is the sequence of the cookies it carries, each [Name, Value].
NoCookies == <<>>

\* The bytes of a cookie name.
Text(name) ==
    CASE name = "sid" -> <<115, 105, 100>>
      [] name = "lang" -> <<108, 97, 110, 103>>

\* The Cookie header line of a request: its pairs name=value, joined by "; ".
\* Value is what the client wrote after the '=', byte for byte.
RECURSIVE CookieLine(_)
CookieLine(r) ==
    IF r = <<>> THEN <<>>
    ELSE LET pair == Text(Head(r).Name) \o <<61>> \o Head(r).Value
         IN  IF Tail(r) = <<>> THEN pair ELSE pair \o <<59, 32>> \o CookieLine(Tail(r))

\* textproto.TrimString: s without the bytes ' ', '\t', '\n' and '\r' at its two
\* ends.
TrimString(s) ==
    IF s = <<>> \/ (s[1] \notin {32, 9, 10, 13} /\ s[Len(s)] \notin {32, 9, 10, 13}) THEN s
    ELSE IF \A i \in 1..Len(s) : s[i] \in {32, 9, 10, 13} THEN <<>>
    ELSE SubSeq(s,
                CHOOSE i \in 1..Len(s) :
                    s[i] \notin {32, 9, 10, 13} /\ \A j \in 1..(i - 1) : s[j] \in {32, 9, 10, 13},
                CHOOSE i \in 1..Len(s) :
                    s[i] \notin {32, 9, 10, 13} /\ \A j \in (i + 1)..Len(s) : s[j] \in {32, 9, 10, 13})

\* strings.IndexByte(s, sep), counted from 1: where sep first stands in s, 0 when
\* it does not.
IndexByte(s, sep) ==
    IF \A i \in 1..Len(s) : s[i] # sep THEN 0
    ELSE CHOOSE i \in 1..Len(s) : s[i] = sep /\ \A j \in 1..(i - 1) : s[j] # sep

\* s around its at-th byte, and all of s before when at is 0.
CutAt(s, at) ==
    IF at = 0 THEN [before |-> s, after |-> <<>>]
    ELSE [before |-> SubSeq(s, 1, at - 1), after |-> SubSeq(s, at + 1, Len(s))]

\* strings.Cut(s, sep) for a separator of one byte: s around its first sep, and all
\* of s before when there is none.
StringsCut(s, sep) == CutAt(s, IndexByte(s, sep))

\* The parts readCookies takes from a line, one after another: the line is cut at
\* each ';' and every part is trimmed.
RECURSIVE Parts(_)
PartsCut(cut) == <<TrimString(cut.before)>> \o Parts(cut.after)
Parts(line) == IF line = <<>> THEN <<>> ELSE PartsCut(StringsCut(line, 59))

\* httpguts.IsTokenRune: the bytes a cookie name is made of.
IsToken(c) ==
    \/ c \in 48..57 \/ c \in 65..90 \/ c \in 97..122
    \/ c \in {33, 35, 36, 37, 38, 39, 42, 43, 45, 46, 94, 95, 96, 124, 126}

\* isCookieNameValid
IsCookieNameValid(name) == name # <<>> /\ \A i \in 1..Len(name) : IsToken(name[i])

\* validCookieValueByte: bytes 0x20..0x7e but '"', ';' and '\\'.
ValidCookieValueByte(c) == c >= 32 /\ c < 127 /\ c \notin {34, 59, 92}

\* What parseCookieValue checks of a value, its double quotes taken off.
ValidCookieValue(v) == \A i \in 1..Len(v) : ValidCookieValueByte(v[i])

\* raw without the pair of double quotes around it, if it has one.
Unquoted(raw) ==
    IF Len(raw) > 1 /\ raw[1] = 34 /\ raw[Len(raw)] = 34
    THEN SubSeq(raw, 2, Len(raw) - 1)
    ELSE raw

\* The value with the verdict on its bytes.
Checked(value) == [ok |-> ValidCookieValue(value), value |-> value]

\* parseCookieValue(raw, true): a pair of double quotes around raw is taken off,
\* and the value is refused when a byte of the rest is not a cookie value byte.
ParseCookieValue(raw) == Checked(Unquoted(raw))

\* The name and the parsed value of a part that was cut at its first '='; the name
\* is trimmed.
PairCut(cut) == [name |-> TrimString(cut.before), val |-> ParseCookieValue(cut.after)]

\* What readCookies makes of each part.
Pairs(parts) == [i \in 1..Len(parts) |-> PairCut(StringsCut(parts[i], 61))]

\* The parts readCookies keeps: a valid name (an empty part has none) that is the
\* filter, and a value parseCookieValue takes.
Taken(pair, filter) == IsCookieNameValid(pair.name) /\ pair.name = filter /\ pair.val.ok

\* readCookies(h, filter): the cookies of the Cookie line, in its order.
ReadCookies(r, filter) ==
    SelectSeq(Pairs(Parts(TrimString(CookieLine(r)))), LAMBDA pair : Taken(pair, filter))

\* The first of the cookies; http.ErrNoCookie when there is none.
FirstCookie(cookies) ==
    IF cookies = <<>> THEN [err |-> TRUE, Value |-> <<>>]
    ELSE [err |-> FALSE, Value |-> cookies[1].val.value]

\* r.Cookie(name): [err, Value] of the first cookie of that name that readCookies
\* gives.
Cookie(r, name) == FirstCookie(ReadCookies(r, Text(name)))

\* ------------------------------------------------------------ Store.Get

\* A mutant of Fresh: the new session keeps the zero SID.
FreshNoSID(rnd) == [panic |-> ~rnd.ok, drew |-> rnd.ok, session |-> ZeroSession]

\* Session{SID: uuid.Must(uuid.NewV4())}: uuid.NewV4 reads 16 bytes from the random
\* source, and uuid.Must panics when that read fails.
Fresh(rnd) ==
    [panic |-> ~rnd.ok, drew |-> rnd.ok,
     session |-> IF rnd.ok
                 THEN [ZeroSession EXCEPT !.SID = NewV4(RandomBytes(rnd.c, UUIDSize))]
                 ELSE ZeroSession]

\* A mutant of Expired: the TTL is compared with the age in whole seconds.
ExpiredWholeSeconds(t, ss, ttl) == Sub(Date(t), ss.Time) \div Second > ttl

\* time.Now().Sub(ss.Time) > s.TTL, t being time.Now().
Expired(t, ss, ttl) == Sub(Date(t), ss.Time) > ttl

\* A mutant of Get: an expired session is handed back, marked not valid, with the
\* fields the cookie carried.
GetKeepsExpired(s, r, rnd, t, bx) ==
    LET reject(cause) ==
            [panic |-> Fresh(rnd).panic, drew |-> Fresh(rnd).drew,
             session |-> Fresh(rnd).session, cause |-> cause]
        c == Cookie(r, s.Name)
        decoded == DecodeString(c.Value)
        encrypted == decoded.data
        nonce == Slice(encrypted, 0, 24)
        opened == Open(bx, Slice(encrypted, 24, Len(encrypted)), nonce, s.Key)
        unmarshalled == UnmarshalBinary(ZeroSession, opened.buf)
        ss == unmarshalled.s
    IN  IF c.err THEN reject("cookie")
        ELSE IF decoded.err THEN reject("base64")
        ELSE IF Len(encrypted) < 24 THEN
            [panic |-> TRUE, drew |-> FALSE, session |-> ZeroSession, cause |-> "slice"]
        ELSE IF ~opened.ok THEN reject("open")
        ELSE IF unmarshalled.err THEN reject("unmarshal")
        ELSE IF Expired(t, ss, s.TTL) THEN
            [panic |-> FALSE, drew |-> FALSE, session |-> [ss EXCEPT !.Valid = FALSE],
             cause |-> "expired"]
        ELSE [panic |-> FALSE, drew |-> FALSE, session |-> ss, cause |-> "valid"]

\* (s *Store) Get(r), t being time.Now(), rnd the outcome of the read of the random
\* source (should Get come to one) and bx what secretbox has sealed:
\* [panic, drew, session, cause].  cause names the return statement taken.
Get(s, r, rnd, t, bx) ==
    LET reject(cause) ==
            [panic |-> Fresh(rnd).panic, drew |-> Fresh(rnd).drew,
             session |-> Fresh(rnd).session, cause |-> cause]
        c == Cookie(r, s.Name)
        decoded == DecodeString(c.Value)
        encrypted == decoded.data
        nonce == Slice(encrypted, 0, 24)
        opened == Open(bx, Slice(encrypted, 24, Len(encrypted)), nonce, s.Key)
        unmarshalled == UnmarshalBinary(ZeroSession, opened.buf)
        ss == unmarshalled.s
    IN  IF c.err THEN reject("cookie")
        ELSE IF decoded.err THEN reject("base64")
        \* encrypted[:24] needs cap(encrypted) >= 24 and encrypted[24:] needs
        \* len(encrypted) >= 24: one of the two panics on a shorter slice.
        ELSE IF Len(encrypted) < 24 THEN
            [panic |-> TRUE, drew |-> FALSE, session |-> ZeroSession, cause |-> "slice"]
        ELSE IF ~opened.ok THEN reject("open")
        ELSE IF unmarshalled.err THEN reject("unmarshal")
        ELSE IF Expired(t, ss, s.TTL) THEN reject("expired")
        ELSE [panic |-> FALSE, drew |-> FALSE, session |-> ss, cause |-> "valid"]

\* ------------------------------------------------------------ Store.Save

\* A mutant of Quot: the quotient is rounded up.
QuotUp(a, b) == (a + b - 1) \div b

\* Go's integer division: the quotient truncated toward zero.
Quot(a, b) == IF a >= 0 THEN a \div b ELSE -((-a) \div b)

\* A mutant of ReadNonce: the nonce is never filled in.
ReadNonceZero(rnd) == [err |-> ~rnd.ok, nonce |-> Zeros(NonceSize)]

\* A mutant of ReadNonce: a failed read is not reported, the zero nonce is used.
ReadNonceFallback(rnd) ==
    [err |-> FALSE,
     nonce |-> IF rnd.ok THEN RandomBytes(rnd.c, NonceSize) ELSE Zeros(NonceSize)]

\* var nonce [24]byte; io.ReadFull(rand.Reader, nonce[:]): [err, nonce].
ReadNonce(rnd) ==
    [err |-> ~rnd.ok,
     nonce |-> IF rnd.ok THEN RandomBytes(rnd.c, NonceSize) ELSE Zeros(NonceSize)]

\* A mutant of Save: the session it stamps is marked valid.
SaveMarksValid(s, ss, rnd, t, bx) ==
    LET read == ReadNonce(rnd)
        stamped == [ss EXCEPT !.Time = Date(t), !.Valid = TRUE]
        buf == MarshalBinary(stamped)
    IN  IF read.err THEN [err |-> TRUE, ss |-> ss, set |-> <<>>, boxes |-> bx]
        ELSE [err |-> FALSE,
              ss |-> stamped,
              set |-> << [Path |-> "/",
                          HttpOnly |-> s.HttpOnly,
                          Secure |-> s.Secure,
                          Name |-> s.Name,
                          Expires |-> Ticks(Add(stamped.Time, s.TTL)),
                          MaxAge |-> Quot(s.TTL, Second),
                          Value |-> EncodeToString(
                              read.nonce \o SealBox(bx, buf, read.nonce, s.Key))] >>,
              boxes |-> Sealed(bx, buf, read.nonce, s.Key)]

\* (s *Store) Save(rw, ss), t being time.Now(): [err, ss, set, boxes] with ss the
\* session afterwards, set the cookies given to http.SetCookie and boxes what
\* secretbox has sealed afterwards.
Save(s, ss, rnd, t, bx) ==
    LET read == ReadNonce(rnd)
        stamped == [ss EXCEPT !.Time = Date(t)]
        buf == MarshalBinary(stamped)
    IN  IF read.err THEN [err |-> TRUE, ss |-> ss, set |-> <<>>, boxes |-> bx]
        ELSE [err |-> FALSE,
              ss |-> stamped,
              set |-> << [Path |-> "/",
                          HttpOnly |-> s.HttpOnly,
                          Secure |-> s.Secure,
                          Name |-> s.Name,
                          Expires |-> Ticks(Add(stamped.Time, s.TTL)),
                          MaxAge |-> Quot(s.TTL, Second),
                          Value |-> EncodeToString(
                              read.nonce \o SealBox(bx, buf, read.nonce, s.Key))] >>,
              boxes |-> Sealed(bx, buf, read.nonce, s.Key)]

\* ------------------------------------------------------------ Store.Clear

\* A mutant of Clear: the cookie has no max-age.
ClearNoMaxAge(s) ==
    [Path |-> "/", HttpOnly |-> s.HttpOnly, Secure |-> s.Secure, Name |-> s.Name,
     Expires |-> Ticks(TimeUnix(Wide(0))), MaxAge |-> 0, Value |-> <<>>]

\* (s *Store) Clear(rw): the cookie given to http.SetCookie.
Clear(s) ==
    [Path |-> "/", HttpOnly |-> s.HttpOnly, Secure |-> s.Secure, Name |-> s.Name,
     Expires |-> Ticks(TimeUnix(Wide(0))), MaxAge |-> -1, Value |-> <<>>]

\* ------------------------------------------------------------ state

VARIABLES
    now,      \* the wall clock, what time.Now() returns
    draws,    \* successful reads of the random source so far
    boxes,    \* what secretbox.Seal has sealed: {[key, nonce, message, box]}
    stores,   \* the Store values the program built, by name
    pc,       \* "idle", or where the handler of the current request stands
    using,    \* the store the handler of the current request uses
    ss,       \* the handler's Session value: what Get returned, what Save is given
    jar,      \* the cookies set on responses so far, in order
    got,      \* the handler's Get call, with its outcome
    saved,    \* the handler's Save call, with its outcome
    saves,    \* history: the successful Save calls, in order
    minted,   \* history: the SIDs Get has generated, in order
    codec,    \* a Session on its way through MarshalBinary and UnmarshalBinary
    threads   \* the goroutines that serve requests at the same time: their locals

vars ==
    <<now, draws, boxes, stores, pc, using, ss, jar, got, saved, saves, minted, codec,
      threads>>

\* The stores' cookie name and secrets ("s3cr3t", "other").
CookieName == "sid"
SecretA == <<115, 51, 99, 114, 51, 116>>
SecretB == <<111, 116, 104, 101, 114>>

StoreIds == {"a1", "a2", "b"}

\* Two stores built from one secret, with a TTL of one second and of a little
\* more, and one built from another secret with a TTL of less than a second.
\* HttpOnly and Secure are the caller's to set on the value New returns.
InitStores ==
    [id \in StoreIds |->
        IF id = "a1" THEN [New(CookieName, SecretA, Second) EXCEPT !.HttpOnly = TRUE]
        ELSE IF id = "a2" THEN New(CookieName, SecretA, Second + 1)
        ELSE [New(CookieName, SecretB, Second - 1) EXCEPT !.Secure = TRUE]]

\* The stores whose handlers set cookies; the handlers that use a2 only read the
\* session.
Writers == {"a1", "b"}

\* What the application puts into a session: UID, RealUID and State.
UserA == [i \in 1..UUIDSize |-> 16 + i]
UserB == [i \in 1..UUIDSize |-> 255 - i]

Profiles ==
    { [UID |-> UserA, RealUID |-> NilUUID, State |-> <<251, 255>>],
      [UID |-> UserB, RealUID |-> UserA, State |-> <<114, 61, 251, 255>>] }

NoGet ==
    [called |-> FALSE, store |-> "", request |-> NoCookies, at |-> 0, panic |-> FALSE,
     session |-> ZeroSession, cause |-> ""]

NoSave ==
    [called |-> FALSE, store |-> "", at |-> 0, random |-> FALSE, err |-> FALSE,
     before |-> ZeroSession, after |-> ZeroSession, set |-> <<>>]

\* No Session is on its way through the codec by itself.
NoCodec ==
    [pc |-> "", s |-> ZeroSession, rcv |-> ZeroSession, data |-> <<>>, whole |-> FALSE,
     err |-> FALSE, out |-> ZeroSession]

\* The stores are built and no request has arrived.
InitStore ==
    /\ now = StartClock
    /\ draws = 0
    /\ boxes = {}
    /\ stores = InitStores
    /\ pc = "idle"
    /\ using = ""
    /\ ss = ZeroSession
    /\ jar = <<>>
    /\ got = NoGet
    /\ saved = NoSave
    /\ saves = <<>>
    /\ minted = <<>>

\* The goroutines: two handlers that may run at the same time.
Threads == {"t1", "t2"}

\* The locals of a goroutine that serves no request: pc is the statement it is
\* at, store the Store it uses, r the request, value / encrypted / nonce / buf /
\* ss the locals of Get and Save, rnd and t what it last read from the random
\* source and the clock, bx what secretbox had sealed when it called Seal; got,
\* given, saved and cleared are what Get returned, what Save was passed and
\* returned, and what Clear set.
NoLocals ==
    [pc |-> "idle", store |-> "", r |-> NoCookies, value |-> <<>>, encrypted |-> <<>>,
     nonce |-> <<>>, buf |-> <<>>, ss |-> ZeroSession, rnd |-> NoRandom, t |-> 0,
     bx |-> {}, got |-> [panic |-> FALSE, session |-> ZeroSession, cause |-> ""],
     given |-> ZeroSession, saved |-> [err |-> FALSE, ss |-> ZeroSession, set |-> <<>>],
     cleared |-> <<>>]

Init == InitStore /\ codec = NoCodec /\ threads = [th \in Threads |-> NoLocals]

\* ------------------------------------------------------------ requests

\* The cookie values set so far.
Issued == {jar[i].Value : i \in 1..Len(jar)}

\* Values made from nothing: not base64, three bytes, a zero nonce alone, and a
\* zero nonce before a zero box of a session's size.
Junk ==
    { <<33, 33, 33, 33>>,
      EncodeToString(Zeros(3)),
      EncodeToString(Zeros(NonceSize)),
      EncodeToString(Zeros(NonceSize + Overhead + HeaderSize)) }

\* What a client sends: no cookie, a cookie of another name, a value a response
\* has set (the empty value of Clear too), or a value made from nothing.
Requests ==
    {NoCookies}
    \cup {<<[Name |-> "lang", Value |-> EncodeToString(Zeros(3))]>>}
    \cup {<<[Name |-> CookieName, Value |-> v]>> : v \in Issued \cup Junk}

\* ------------------------------------------------------------ actions

\* The outcomes a read of the random source can have.
Reads == {NoRandom} \cup (IF draws < MaxDraws THEN {Random(draws + 1)} ELSE {})

\* Time passes between requests.  Before the first cookie is set the clock is
\* left alone: nothing depends on the time yet.
Tick ==
    /\ pc = "idle"
    /\ jar # <<>>
    /\ now < StartClock + MaxTicks
    /\ now' = now + 1
    /\ UNCHANGED <<draws, boxes, stores, pc, using, ss, jar, got, saved, saves, minted, codec,
                 threads>>

\* A request from reqs arrives and its handler calls Get on the store it uses, one
\* of ids.
GetFrom(reqs, ids) ==
    /\ pc = "idle"
    /\ \E id \in ids, r \in reqs, rnd \in Reads :
        \E res \in {Get(stores[id], r, rnd, now, boxes)} :
            /\ got' = [called |-> TRUE, store |-> id, request |-> r, at |-> now,
                       panic |-> res.panic, session |-> res.session, cause |-> res.cause]
            /\ ss' = res.session
            /\ draws' = IF res.drew THEN draws + 1 ELSE draws
            /\ minted' = IF res.drew THEN Append(minted, res.session.SID) ELSE minted
            /\ pc' = IF res.panic THEN "panicked" ELSE "handling"
            /\ using' = id
    /\ UNCHANGED <<now, boxes, stores, jar, saved, saves, codec, threads>>

DoGet == GetFrom(Requests, StoreIds)

\* What the handler makes of the session s that Get returned: it leaves it as it
\* is, or logs a user in where none is.
Handled(s) ==
    {s} \cup (IF s.UID = NilUUID /\ s.State = <<>>
              THEN {[s EXCEPT !.UID = p.UID, !.RealUID = p.RealUID, !.State = p.State] :
                        p \in Profiles}
              ELSE {})

\* The handler calls Save with the session it holds, and responds.
DoSave ==
    /\ pc = "handling"
    /\ using \in Writers
    /\ Len(jar) < MaxCookies
    /\ \E given \in Handled(ss), rnd \in Reads :
        \E res \in {Save(stores[using], given, rnd, now, boxes)} :
            /\ saved' = [called |-> TRUE, store |-> using, at |-> now, random |-> rnd.ok,
                         err |-> res.err, before |-> given, after |-> res.ss,
                         set |-> res.set]
            /\ ss' = res.ss
            /\ jar' = jar \o res.set
            /\ boxes' = res.boxes
            /\ draws' = IF rnd.ok THEN draws + 1 ELSE draws
            /\ saves' = IF res.err THEN saves
                        ELSE Append(saves, [store |-> using, session |-> res.ss,
                                            value |-> res.set[1].Value])
    /\ got' = NoGet
    /\ pc' = "responded"
    /\ UNCHANGED <<now, stores, using, minted, codec, threads>>

\* The handler calls Clear, and responds.
DoClear ==
    /\ pc = "handling"
    /\ using \in Writers
    /\ Len(jar) < MaxCookies
    /\ jar' = Append(jar, Clear(stores[using]))
    /\ got' = NoGet
    /\ pc' = "responded"
    /\ UNCHANGED <<now, draws, boxes, stores, using, ss, saved, saves, minted, codec,
                 threads>>

\* The handler is gone: it returned, or the panic of Get unwound it.
EndRequest ==
    /\ pc # "idle"
    /\ pc' = "idle"
    /\ using' = ""
    /\ ss' = ZeroSession
    /\ got' = NoGet
    /\ saved' = NoSave
    /\ UNCHANGED <<now, draws, boxes, stores, jar, saves, minted, codec, threads>>

Next == Tick \/ DoGet \/ DoSave \/ DoClear \/ EndRequest

Spec == Init /\ [][Next]_vars

\* ------------------------------------------------------------ forged requests

\* c with bit b flipped.
FlipBit(c, b) == IF (c \div (2 ^ b)) % 2 = 1 THEN c - 2 ^ b ELSE c + 2 ^ b

\* v with bit b of its p-th character flipped.
Flip(v, p, b) == [v EXCEPT ![p] = FlipBit(v[p], b)]

\* The characters of a cookie value that spell the nonce.
NonceChars == 4 * (NonceSize \div 3)

\* The last character of v that is not padding.
LastChar(v) ==
    CHOOSE p \in 1..Len(v) : v[p] # PadChar /\ \A q \in (p + 1)..Len(v) : v[q] = PadChar

\* v within double quotes.
Quoted(v) == <<34>> \o v \o <<34>>

\* Values made from the value v of a Save: one bit flipped in the first character
\* of the nonce, in the first of the box, in the last character or in the last one
\* that is not padding; v cut short, within the nonce, after it, within the
\* authenticator and within the message; v with a ';' within the nonce and after
\* it; v within double quotes; and v before a line feed.
Tampered(v) ==
    IF v = <<>> THEN {}
    ELSE {Flip(v, p, b) : p \in {1, NonceChars + 1, LastChar(v), Len(v)}, b \in 0..7}
         \cup {SubSeq(v, 1, k) :
                 k \in {4, NonceChars - 4, NonceChars, NonceChars + 20, Len(v) - 4, Len(v) - 1}}
         \cup {[v EXCEPT ![p] = 59] : p \in {NonceChars - 11, NonceChars + 1}}
         \cup {Quoted(v), v \o <<10>>}

\* The nonce of one value before the box of another.
Spliced(v, w) ==
    EncodeToString(Slice(DecodeString(v).data, 0, NonceSize)
                   \o Slice(DecodeString(w).data, NonceSize, Len(DecodeString(w).data)))

\* What a client that has seen the responses, and has no key, can send: what any
\* client sends, and values made from the ones set so far.
Forgeries ==
    Requests
    \cup {<<[Name |-> CookieName, Value |-> v]>> :
            v \in UNION {Tampered(w) : w \in Issued}
                  \cup {Spliced(w, x) : w, x \in Issued \ {<<>>}}}

\* A request of such a client arrives.
Forge == GetFrom(Forgeries, StoreIds)

NextForge == Forge \/ DoSave \/ EndRequest

\* The handlers serve such a client, all within one tick of the clock.
SpecForge == Init /\ [][NextForge]_vars

\* Every value made from v by flipping one bit.
BitFlips(v) == {Flip(v, p, b) : p \in 1..Len(v), b \in 0..7}

\* A first request arrives, without a cookie.
Arrive == jar = <<>> /\ GetFrom({NoCookies}, Writers)

\* Its handler saves the session.
FirstSave == jar = <<>> /\ DoSave

\* The cookie comes back with one bit flipped, to the store that set it.
Tamper ==
    /\ jar # <<>>
    /\ GetFrom({<<[Name |-> CookieName, Value |-> v]>> : v \in BitFlips(jar[1].Value)},
               {saves[1].store})

NextTamper == Arrive \/ FirstSave \/ EndRequest \/ Tamper

\* One cookie is set, and comes back with any one of its bits flipped.
SpecTamper == Init /\ [][NextTamper]_vars

\* ------------------------------------------------------------ renewal

\* The last successful Save.
LastSave == saves[Len(saves)]

\* The client comes back to the store of the first Save with the cookie of the
\* last Save, no later than that store's TTL after the Time of that Save.
ReadBack ==
    /\ saves # <<>>
    /\ now - Ticks(LastSave.session.Time) <= stores[saves[1].store].TTL
    /\ GetFrom({<<[Name |-> CookieName, Value |-> LastSave.value]>>}, {saves[1].store})

\* DoSave: the handler saves the session Get returned to it, on the store it read
\* it from.
NextRenew == Arrive \/ DoSave \/ ReadBack \/ Tick \/ EndRequest

\* A session is renewed again and again: Save, Get, Save, Get, ... on one store,
\* each Get within the TTL of the Save before it.
SpecRenew == Init /\ [][NextRenew]_vars

\* ------------------------------------------------------------ the codec alone

\* The Sessions given to MarshalBinary: Times on and off a whole second, before
\* the epoch (the zero Time and second -2^28 too), at the epoch and long after
\* it; identifiers that are zero and that are not; States of no, one, two and
\* four bytes.
CodecTimes ==
    {ZeroTime, TimeUnix(Wide(-(2 ^ 28)))}
        \cup {Date(n) : n \in {-Second - 1, 0, 1, StartClock, StartClock + 1}}

CodecSessions ==
    { [Valid |-> v, Time |-> t, SID |-> sid, UID |-> uid, RealUID |-> real, State |-> st] :
        v \in BOOLEAN, t \in CodecTimes,
        sid \in {NilUUID, NewV4(RandomBytes(1, UUIDSize))},
        uid \in {NilUUID, UserA}, real \in {NilUUID, UserB},
        st \in {<<>>, <<0>>} \cup {p.State : p \in Profiles} }

\* The Sessions UnmarshalBinary is called on: a zero Session, as in Get, and one
\* with every field set.
Receivers ==
    { ZeroSession,
      [Valid |-> TRUE, Time |-> Date(StartClock), SID |-> UserB, UID |-> UserB,
       RealUID |-> UserB, State |-> <<7>>] }

InitCodec ==
    /\ InitStore
    /\ codec \in {[NoCodec EXCEPT !.pc = "new", !.s = s, !.rcv = r, !.out = r] :
                    s \in CodecSessions, r \in Receivers}
    /\ threads = [th \in Threads |-> NoLocals]

\* data, err := s.MarshalBinary()
Encode ==
    /\ codec.pc = "new"
    /\ codec' = [codec EXCEPT !.pc = "encoded", !.data = MarshalBinary(codec.s),
                              !.whole = TRUE]
    /\ UNCHANGED <<now, draws, boxes, stores, pc, using, ss, jar, got, saved, saves, minted,
                 threads>>

\* Where an encoding is cut to give UnmarshalBinary less than all of it: to
\* nothing, within and after the identifiers, at the end of the header, and one
\* byte short of the end.
Cuts(data) == {k \in {0, TimeSize, HeaderSize - 1, HeaderSize, Len(data) - 1} : k < Len(data)}

Cut ==
    /\ codec.pc = "encoded"
    /\ \E k \in Cuts(codec.data) :
        codec' = [codec EXCEPT !.pc = "cut", !.data = Slice(codec.data, 0, k),
                                  !.whole = FALSE]
    /\ UNCHANGED <<now, draws, boxes, stores, pc, using, ss, jar, got, saved, saves, minted,
                 threads>>

\* err := rcv.UnmarshalBinary(data)
Decode ==
    /\ codec.pc \in {"encoded", "cut"}
    /\ \E res \in {UnmarshalBinary(codec.rcv, codec.data)} :
        codec' = [codec EXCEPT !.pc = "decoded", !.err = res.err, !.out = res.s]
    /\ UNCHANGED <<now, draws, boxes, stores, pc, using, ss, jar, got, saved, saves, minted,
                 threads>>

NextCodec == Encode \/ Cut \/ Decode

SpecCodec == InitCodec /\ [][NextCodec]_vars

\* ------------------------------------------------------------ concurrent handlers

\* The return statement Session{SID: uuid.Must(uuid.NewV4())} of Get, taken by a
\* goroutine for the given cause.
Rejects(l, rnd, cause) ==
    [l EXCEPT !.rnd = rnd,
              !.got = [panic |-> Fresh(rnd).panic, session |-> Fresh(rnd).session,
                       cause |-> cause],
              !.pc = IF Fresh(rnd).panic THEN "panicked" ELSE "got"]

\* One step of Get by a goroutine with locals l on the Store s, t being the clock,
\* rnd what a read of the random source gives and bx what secretbox has sealed:
\* the locals afterwards.  A step is a statement that reads the Store, the cipher
\* or the clock, with the statements after it that touch locals only.
GetLocals(s, l, rnd, t, bx) ==
    LET c == Cookie(l.r, s.Name)
        decoded == DecodeString(c.Value)
        opened == Open(bx, Slice(l.encrypted, 24, Len(l.encrypted)), l.nonce, s.Key)
        unmarshalled == UnmarshalBinary(ZeroSession, opened.buf)
    IN  CASE l.pc = "get:cookie" ->
                IF c.err THEN Rejects(l, rnd, "cookie")
                ELSE IF decoded.err THEN Rejects([l EXCEPT !.value = c.Value], rnd, "base64")
                ELSE IF Len(decoded.data) < 24
                THEN [l EXCEPT !.value = c.Value,
                               !.encrypted = decoded.data,
                               !.got = [panic |-> TRUE, session |-> ZeroSession,
                                        cause |-> "slice"],
                               !.pc = "panicked"]
                ELSE [l EXCEPT !.value = c.Value,
                               !.encrypted = decoded.data,
                               !.nonce = Slice(decoded.data, 0, 24),
                               !.pc = "get:open"]
          [] l.pc = "get:open" ->
                IF ~opened.ok THEN Rejects(l, rnd, "open")
                ELSE IF unmarshalled.err THEN Rejects([l EXCEPT !.buf = opened.buf], rnd,
                                                      "unmarshal")
                ELSE [l EXCEPT !.buf = opened.buf, !.ss = unmarshalled.s,
                               !.pc = "get:expiry"]
          [] l.pc = "get:expiry" ->
                IF Expired(t, l.ss, s.TTL) THEN Rejects([l EXCEPT !.t = t], rnd, "expired")
                ELSE [l EXCEPT !.t = t,
                               !.got = [panic |-> FALSE, session |-> l.ss, cause |-> "valid"],
                               !.pc = "got"]

\* The statement of Get, and the Store as it leaves it: Get assigns to no field of *s.
GetStep(s, l, rnd, t, bx) ==
    [l |-> GetLocals(s, l, rnd, t, bx),
     drew |-> rnd.ok /\ GetLocals(s, l, rnd, t, bx).pc = "got"
                    /\ GetLocals(s, l, rnd, t, bx).got.cause # "valid",
     s |-> s]

\* One step of Save by a goroutine: the locals afterwards.
SaveLocals(s, l, rnd, t, bx) ==
    CASE l.pc = "save:nonce" ->
            IF ReadNonce(rnd).err
            THEN [l EXCEPT !.rnd = rnd,
                           !.saved = [err |-> TRUE, ss |-> l.given, set |-> <<>>],
                           !.pc = "saved"]
            ELSE [l EXCEPT !.rnd = rnd, !.nonce = ReadNonce(rnd).nonce, !.pc = "save:stamp"]
      [] l.pc = "save:stamp" ->
            [l EXCEPT !.t = t,
                      !.ss = [l.given EXCEPT !.Time = Date(t)],
                      !.buf = MarshalBinary([l.given EXCEPT !.Time = Date(t)]),
                      !.pc = "save:cookie"]
      [] l.pc = "save:cookie" ->
            [l EXCEPT !.bx = bx,
                      !.saved =
                          [err |-> FALSE,
                           ss |-> l.ss,
                           set |-> << [Path |-> "/",
                                       HttpOnly |-> s.HttpOnly,
                                       Secure |-> s.Secure,
                                       Name |-> s.Name,
                                       Expires |-> Ticks(Add(l.ss.Time, s.TTL)),
                                       MaxAge |-> Quot(s.TTL, Second),
                                       Value |-> EncodeToString(
                                           l.nonce \o SealBox(bx, l.buf, l.nonce, s.Key))] >>],
                      !.pc = "saved"]

\* A mutant of SaveStep: Save keeps the TTL it has written to the cookie, in whole
\* seconds, in the Store.
SaveStepRoundsTTL(s, l, rnd, t, bx) ==
    [l |-> SaveLocals(s, l, rnd, t, bx),
     bx |-> IF l.pc = "save:cookie" THEN Sealed(bx, l.buf, l.nonce, s.Key) ELSE bx,
     s |-> IF l.pc = "save:cookie" THEN [s EXCEPT !.TTL = Quot(s.TTL, Second) * Second]
           ELSE s]

\* The statement of Save, what secretbox has sealed after it, and the Store as it
\* leaves it: Save assigns to no field of *s.
SaveStep(s, l, rnd, t, bx) ==
    [l |-> SaveLocals(s, l, rnd, t, bx),
     bx |-> IF l.pc = "save:cookie" THEN Sealed(bx, l.buf, l.nonce, s.Key) ELSE bx,
     s |-> s]

\* Clear by a goroutine: its one statement, and the Store as it leaves it.
ClearCall(s, l) ==
    [l |-> [l EXCEPT !.cleared = <<Clear(s)>>, !.pc = "cleared"], s |-> s]

\* The goroutines that are within a call that will set a cookie.
Setting == {th \in Threads : threads[th].pc \in {"save:nonce", "save:stamp", "save:cookie"}}

\* What the clients of concurrent requests send: no cookie, or a cookie that a
\* response has set.
ConcurrentRequests ==
    {NoCookies} \cup {<<[Name |-> CookieName, Value |-> v]>> : v \in Issued}

\* The Store the goroutines share.
SharedStore == "b"

\* A request arrives at a goroutine that is free, and its handler calls Get on the
\* shared Store.
CallGet ==
    \E th \in Threads, r \in ConcurrentRequests :
        /\ threads[th].pc = "idle"
        /\ threads' = [threads EXCEPT ![th] =
                           [NoLocals EXCEPT !.pc = "get:cookie", !.store = SharedStore,
                                            !.r = r]]
        /\ UNCHANGED <<now, draws, boxes, stores, pc, using, ss, jar, got, saved, saves,
                       minted, codec>>

\* A goroutine executes the statement of Get it is at.
StepGet ==
    \E th \in Threads, rnd \in Reads :
        /\ threads[th].pc \in {"get:cookie", "get:open", "get:expiry"}
        /\ \E res \in {GetStep(stores[threads[th].store], threads[th], rnd, now, boxes)} :
            /\ threads' = [threads EXCEPT ![th] = res.l]
            /\ draws' = IF res.drew THEN draws + 1 ELSE draws
            /\ stores' = [stores EXCEPT ![threads[th].store] = res.s]
        /\ UNCHANGED <<now, boxes, pc, using, ss, jar, got, saved, saves, minted, codec>>

\* The handler of a goroutine calls Save with the session Get returned to it.
CallSave ==
    \E th \in Threads :
        /\ threads[th].pc = "got"
        /\ Len(jar) + Cardinality(Setting) < MaxCookies
        /\ threads' = [threads EXCEPT ![th].given = threads[th].got.session,
                                      ![th].pc = "save:nonce"]
        /\ UNCHANGED <<now, draws, boxes, stores, pc, using, ss, jar, got, saved, saves,
                       minted, codec>>

\* A goroutine executes the statement of Save it is at.
StepSave ==
    \E th \in Setting, rnd \in Reads :
        \E res \in {SaveStep(stores[threads[th].store], threads[th], rnd, now, boxes)} :
            /\ threads' = [threads EXCEPT ![th] = res.l]
            /\ draws' = IF threads[th].pc = "save:nonce" /\ rnd.ok THEN draws + 1 ELSE draws
            /\ boxes' = res.bx
            /\ jar' = IF res.l.pc = "saved" THEN jar \o res.l.saved.set ELSE jar
            /\ stores' = [stores EXCEPT ![threads[th].store] = res.s]
            /\ UNCHANGED <<now, pc, using, ss, got, saved, saves, minted, codec>>

\* The handler of a goroutine calls Clear.
CallClear ==
    \E th \in Threads :
        /\ threads[th].pc = "got"
        /\ Len(jar) + Cardinality(Setting) < MaxCookies
        /\ \E res \in {ClearCall(stores[threads[th].store], threads[th])} :
            /\ threads' = [threads EXCEPT ![th] = res.l]
            /\ jar' = jar \o res.l.cleared
            /\ stores' = [stores EXCEPT ![threads[th].store] = res.s]
        /\ UNCHANGED <<now, draws, boxes, pc, using, ss, got, saved, saves, minted, codec>>

\* The handler of a goroutine returns, or the panic of Get has unwound it.
Return ==
    \E th \in Threads :
        /\ threads[th].pc \in {"got", "saved", "cleared", "panicked"}
        /\ threads' = [threads EXCEPT ![th] = NoLocals]
        /\ UNCHANGED <<now, draws, boxes, stores, pc, using, ss, jar, got, saved, saves,
                       minted, codec>>

\* The clock passes from the last tick of a second to the next second, which is
\* past the shared Store's TTL for a cookie of that second, before a goroutine
\* reads it; when time passes otherwise, no goroutine can tell.
Wait ==
    /\ \E th \in Threads : threads[th].pc \in {"save:stamp", "get:expiry"}
    /\ now = StartClock
    /\ now' = now + 1
    /\ UNCHANGED <<draws, boxes, stores, pc, using, ss, jar, got, saved, saves, minted, codec,
                   threads>>

NextConcurrent ==
    CallGet \/ StepGet \/ CallSave \/ StepSave \/ CallClear \/ Return \/ Wait

\* Two handlers serve requests at the same time, statement by statement, while
\* the clock runs.
SpecConcurrent == Init /\ [][NextConcurrent]_vars

\* ------------------------------------------------------------ claims

\* t at whole-second precision.
WholeSeconds(t) == TimeUnix(Unix(t))

\* The handler's Get was given, unmodified, the cookie the i-th successful Save set.
Presents(i) ==
    /\ got.called
    /\ got.request = <<[Name |-> stores[saves[i].store].Name, Value |-> saves[i].value]>>

\* The session Get returned and the i-th saved one agree on SID, UID, RealUID and State.
SameFields(i) ==
    /\ got.session.SID = saves[i].session.SID
    /\ got.session.UID = saves[i].session.UID
    /\ got.session.RealUID = saves[i].session.RealUID
    /\ got.session.State = saves[i].session.State

\* Get returned a session it generated itself.
Anonymous == got.called /\ ~got.panic /\ got.cause # "valid"

\* The SID of the session Get returned is new: it is the last one generated, it is
\* not the zero SID, and neither an earlier Get nor a saved session had it.
FreshSID ==
    /\ minted # <<>>
    /\ got.session.SID = minted[Len(minted)]
    /\ got.session.SID # NilUUID
    /\ \A k \in 1..(Len(minted) - 1) : minted[k] # got.session.SID
    /\ \A i \in 1..Len(saves) : saves[i].session.SID # got.session.SID

\* Get panicked in uuid.Must: the random source failed while it generated a SID.
RandomSourceFailed == got.called /\ got.panic /\ got.cause # "slice"

\* C1: a cookie set by a successful Save and presented unmodified to Get on a
\* store of the same secret and cookie name, no later than the store's TTL after
\* the saved Time as the cookie carries it (in whole seconds), gives a session
\* with Valid = true, the saved SID, UID, RealUID and State, and the save time at
\* whole-second precision.
C1_SaveGetRoundTrip ==
    \A i \in 1..Len(saves) :
        ( /\ Presents(i)
          /\ stores[got.store].Secret = stores[saves[i].store].Secret
          /\ stores[got.store].Name = stores[saves[i].store].Name
          /\ got.at - Ticks(WholeSeconds(saves[i].session.Time)) <= stores[got.store].TTL )
        => /\ ~got.panic
           /\ got.session.Valid
           /\ SameFields(i)
           /\ got.session.Time = WholeSeconds(saves[i].session.Time)

\* C1 witness: another store of the same secret returns, some time after the
\* Save, a saved session that carries a user and a State.
C1_Witness ==
    \E i \in 1..Len(saves) :
        /\ Presents(i)
        /\ got.store # saves[i].store
        /\ stores[got.store].Secret = stores[saves[i].store].Secret
        /\ got.at > Ticks(saves[i].session.Time)
        /\ got.session.Valid
        /\ got.session.UID = UserB
        /\ got.session.State # <<>>

\* Some successful Save on a store of the secret of the store that Get was called
\* on was given a session with the SID, UID, RealUID and State of the one Get
\* returned, and with a Time for which atTime holds.
SavedBefore(atTime(_)) ==
    \E i \in 1..Len(saves) :
        /\ stores[saves[i].store].Secret = stores[got.store].Secret
        /\ SameFields(i)
        /\ atTime(saves[i].session.Time)

\* C2 (as claimed): a session Get returns with Valid = true has the SID, UID,
\* RealUID, State and Time of a session given before to a successful Save on a
\* store of the same secret; a session Get generated itself is not valid.
C2_AuthenticWithSavedTime ==
    /\ (got.called /\ got.session.Valid)
            => (got.cause = "valid" /\ SavedBefore(LAMBDA t : got.session.Time = t))
    /\ (got.called /\ got.cause # "valid") => ~got.session.Valid

\* C2 (amended): the same, but the Time of the returned session is the saved
\* session's Time at whole-second precision: the seconds the cookie carries.
C2_Authentic ==
    /\ (got.called /\ got.session.Valid)
            => /\ got.cause = "valid"
               /\ SavedBefore(LAMBDA t : got.session.Time = WholeSeconds(t))
    /\ (got.called /\ got.cause # "valid") => ~got.session.Valid

\* C2 witness: the client sends a value that no response has set, and Get returns
\* a valid session, with a user, for it.
C2_Witness ==
    /\ got.called
    /\ got.request # NoCookies
    /\ got.request[1].Value \notin Issued
    /\ got.session.Valid
    /\ got.session.UID # NilUUID

\* C3: a session Get returns with Valid = true is no older, from its Time to the
\* moment of the Get, than the TTL of the store that read it; and a saved cookie
\* read later than its save time plus that TTL never gives a valid session.
C3_ExpiryUpperBound ==
    /\ (got.called /\ got.session.Valid)
            => got.at - Ticks(got.session.Time) <= stores[got.store].TTL
    /\ \A i \in 1..Len(saves) :
            (Presents(i) /\ got.at > Ticks(saves[i].session.Time) + stores[got.store].TTL)
                => ~got.session.Valid

\* C3 witness: a saved cookie is read later than its save time plus the TTL, and
\* Get returns a new session for it because it has expired.
C3_Witness ==
    \E i \in 1..Len(saves) :
        /\ Presents(i)
        /\ stores[got.store].Secret = stores[saves[i].store].Secret
        /\ got.at > Ticks(saves[i].session.Time) + stores[got.store].TTL
        /\ Anonymous
        /\ got.cause = "expired"

\* C4 (as claimed): a cookie saved at t0 on a store with TTL T and read on that
\* store at a time from t0 up to, but not including, t0 + T gives the saved
\* session, valid (the random source is not at fault when it does not).
C4_ValidUntilTTL ==
    \A i \in 1..Len(saves) :
        ( /\ Presents(i)
          /\ ~RandomSourceFailed
          /\ got.store = saves[i].store
          /\ got.at >= Ticks(saves[i].session.Time)
          /\ got.at < Ticks(saves[i].session.Time) + stores[got.store].TTL )
        => (~got.panic /\ got.session.Valid /\ SameFields(i))

\* C5 (as claimed): whatever the request carries, Get returns (unless the random
\* source fails), and what it returns on a failure path is not valid.
C5_GetNeverPanics ==
    (got.called /\ ~RandomSourceFailed)
        => (~got.panic /\ (got.cause # "valid" => ~got.session.Valid))

\* C6 (as claimed): a cookie value set by Save, with any one bit flipped and
\* presented to the store that set it, gives a session that is not valid and has
\* a new SID, not the saved one (unless the random source fails).
C6_AnyBitFlipRejected ==
    \A i \in 1..Len(saves) :
        ( /\ got.called
          /\ ~RandomSourceFailed
          /\ got.store = saves[i].store
          /\ got.request # NoCookies
          /\ got.request[1].Value \in BitFlips(saves[i].value) )
        => /\ ~got.panic
           /\ ~got.session.Valid
           /\ FreshSID
           /\ got.session.SID # saves[i].session.SID

\* C7: a cookie set by Save on a store of one secret and read by a store of
\* another secret fails authentication whenever it is read: Get returns a session
\* that is not valid, with a new SID and zero UID and RealUID.
C7_CrossKeyIsolation ==
    \A i \in 1..Len(saves) :
        ( /\ Presents(i)
          /\ stores[got.store].Secret # stores[saves[i].store].Secret
          /\ ~got.panic )
        => /\ got.cause = "open"
           /\ ~got.session.Valid
           /\ FreshSID
           /\ got.session.UID = NilUUID
           /\ got.session.RealUID = NilUUID

\* C7 witness: the store of the other secret is given a cookie that has not
\* expired, and Get returns.
C7_Witness ==
    \E i \in 1..Len(saves) :
        /\ Presents(i)
        /\ stores[got.store].Secret # stores[saves[i].store].Secret
        /\ got.at - Ticks(WholeSeconds(saves[i].session.Time)) <= stores[got.store].TTL
        /\ saves[i].session.UID # NilUUID
        /\ Anonymous

\* The nonce a cookie value carries: the first 24 bytes under the base64, which
\* the first 32 characters of the value spell.
NonceOf(v) == DecodeString(SubSeq(v, 1, 4 * (NonceSize \div 3))).data

\* C8: a successful Save has drawn its nonce from the random source, the nonce is
\* the one before the box in the cookie value; no two successful Saves used the
\* same nonce, and no two set the same cookie value.
C8_NonceFreshness ==
    /\ (saved.called /\ ~saved.err)
            => /\ saved.random
               /\ draws > 0
               /\ NonceOf(saved.set[1].Value) = RandomBytes(draws, NonceSize)
    /\ \A i \in 1..Len(saves) : \A j \in (i + 1)..Len(saves) :
            /\ NonceOf(saves[i].value) # NonceOf(saves[j].value)
            /\ saves[i].value # saves[j].value

\* C8 witness: two successful Saves, one after the other on one store, of
\* sessions equal in every field that Save writes into the cookie.
C8_Witness ==
    /\ Len(saves) = 2
    /\ saved.called /\ ~saved.err
    /\ saves[1].store = saves[2].store
    /\ MarshalBinary(saves[1].session) = MarshalBinary(saves[2].session)
    /\ saves[1].session.Time = saves[2].session.Time
    /\ saves[1].session.UID # NilUUID

\* The request of the handler's Get carries no cookie of the store's name.
NoNamedCookie == got.called /\ Cookie(got.request, stores[got.store].Name).err

\* C9: when the request carries no cookie of the store's name, the session Get
\* returns is not valid and has a SID that is not zero and that no earlier Get
\* generated.
C9_MissingCookie ==
    (NoNamedCookie /\ ~got.panic)
        => (got.cause = "cookie" /\ ~got.session.Valid /\ FreshSID)

\* C9 witness: a second Get without the cookie has returned.
C9_Witness ==
    /\ NoNamedCookie
    /\ got.request = NoCookies
    /\ Anonymous
    /\ Len(minted) >= 2
    /\ jar = <<>>

\* C10: Save returns an error exactly when the random source did not supply the
\* nonce, and then it has set no cookie and left the session, its Time too, as it
\* was; a Save that returns no error has set one cookie, under a nonce that the
\* random source supplied.
C10_SaveFailsOnlyWithoutRandom ==
    saved.called
        => /\ saved.err <=> ~saved.random
           /\ saved.err => (saved.set = <<>> /\ saved.after = saved.before)
           /\ ~saved.err => (Len(saved.set) = 1 /\ saved.random)

\* C10 witness: a Save of a logged-in session failed.
C10_Witness ==
    /\ saved.called
    /\ saved.err
    /\ saved.before.UID # NilUUID
    /\ saved.before.SID # NilUUID

\* The step of a handler is its call of Clear: it responds without a call of Save.
ClearStep == pc = "handling" /\ pc' = "responded" /\ ~saved'.called

\* C11: whatever was read, saved or cleared before and whatever session the
\* handler holds, a call of Clear sets exactly one cookie: the store's name, Path
\* "/", the store's HttpOnly and Secure, an empty value, Expires at the Unix epoch,
\* which is in the past, and MaxAge -1; it reads nothing from the random source,
\* seals and opens nothing, and leaves the store and the session as they were.
C11_ClearCookie ==
    [][ClearStep =>
          /\ jar' = Append(jar, [Name |-> stores[using].Name,
                                 Path |-> "/",
                                 HttpOnly |-> stores[using].HttpOnly,
                                 Secure |-> stores[using].Secure,
                                 Value |-> <<>>,
                                 Expires |-> 0,
                                 MaxAge |-> -1])
          /\ jar'[Len(jar')].Expires < now
          /\ draws' = draws
          /\ boxes' = boxes
          /\ stores' = stores
          /\ ss' = ss]_vars

\* C11 witness: Clear has answered a request that carried a valid cookie of a
\* logged-in session, on the store that set it.
C11_Witness ==
    /\ pc = "responded"
    /\ ~saved.called
    /\ ss.Valid
    /\ ss.UID # NilUUID
    /\ Len(jar) = 2
    /\ jar[1].Value # <<>>
    /\ jar[2].Value = <<>>
    /\ jar[2].MaxAge = -1

\* C12: for every Session, with identifiers of 16 bytes and any State, the empty
\* one too, UnmarshalBinary of what MarshalBinary returned succeeds and gives
\* Valid = true, the Time truncated to whole seconds, and the SID, UID, RealUID
\* and State byte for byte, whatever the receiver held.
C12_CodecRoundTrip ==
    (codec.pc = "decoded" /\ codec.whole)
        => /\ ~codec.err
           /\ codec.out.Valid
           /\ codec.out.Time = WholeSeconds(codec.s.Time)
           /\ codec.out.Time.frac = 0
           /\ Sub(codec.s.Time, codec.out.Time) \in 0..(Second - 1)
           /\ codec.out.SID = codec.s.SID
           /\ codec.out.UID = codec.s.UID
           /\ codec.out.RealUID = codec.s.RealUID
           /\ codec.out.State = codec.s.State

\* C12 witness: a Session that was not valid, with a Time off the whole second,
\* zero UID and empty State, has come back through a receiver that held other
\* fields.
C12_Witness ==
    /\ codec.pc = "decoded"
    /\ codec.whole
    /\ ~codec.s.Valid
    /\ codec.s.Time = Date(StartClock)
    /\ codec.out.Time # codec.s.Time
    /\ codec.s.UID = NilUUID
    /\ codec.s.RealUID # NilUUID
    /\ codec.s.State = <<>>
    /\ codec.rcv # ZeroSession
    /\ codec.out.Valid

\* C13: UnmarshalBinary returns an error exactly when it is given fewer than 56
\* bytes (so the error is ErrTooShort, never one of uuid.FromBytes); given 56 or
\* more it sets Valid and makes State the bytes after the 56th, none if there are
\* none; when it returns an error the receiver is as it was.
C13_DecodeTooShort ==
    codec.pc = "decoded"
        => /\ codec.err <=> Len(codec.data) < 56
           /\ ~codec.err
                => /\ codec.out.Valid
                   /\ Len(codec.out.State) = Len(codec.data) - 56
                   /\ \A i \in 1..Len(codec.out.State) :
                          codec.out.State[i] = codec.data[56 + i]
           /\ codec.err => codec.out = codec.rcv

\* C13 witness: 55 bytes were refused by a receiver that held a valid Session.
C13_Witness ==
    /\ codec.pc = "decoded"
    /\ Len(codec.data) = 55
    /\ codec.err
    /\ codec.rcv.Valid
    /\ codec.out.Valid
    /\ codec.out.State = <<7>>

\* C19: what MarshalBinary returns is 56 bytes and State: the Unix seconds of Time
\* in 8 bytes, high byte first, then SID, UID and RealUID in 16 bytes each, zero
\* or not, then the bytes of State and nothing else.
C19_SerializedLayout ==
    codec.pc = "encoded"
        => /\ Len(codec.data) = 56 + Len(codec.s.State)
           \* from the epoch on: the high bytes are zero, the low ones spell the seconds
           /\ (codec.s.Time.sec.hi = 0 /\ codec.s.Time.sec.mid < 128)
                => /\ \A i \in 1..4 : codec.data[i] = 0
                   /\ codec.data[5] * 16777216 + codec.data[6] * 65536
                          + codec.data[7] * 256 + codec.data[8]
                          = codec.s.Time.sec.mid * 16777216 + codec.s.Time.sec.lo
           \* before the epoch the seconds are negative, written in two's complement
           /\ (codec.s.Time.sec.hi = -1 /\ codec.s.Time.sec.mid >= 16777216 - 128)
                => /\ \A i \in 1..4 : codec.data[i] = 255
                   /\ -1 - ((255 - codec.data[5]) * 16777216 + (255 - codec.data[6]) * 65536
                            + (255 - codec.data[7]) * 256 + (255 - codec.data[8]))
                          = (codec.s.Time.sec.mid - 16777216) * 16777216 + codec.s.Time.sec.lo
           \* the zero Time, second -62135596800: uint64 0xfffffff1886e0900
           /\ codec.s.Time = ZeroTime
                => SubSeq(codec.data, 1, 8) = <<255, 255, 255, 241, 136, 110, 9, 0>>
           \* every Time given is one of the three cases above
           /\ \/ codec.s.Time.sec.hi = 0 /\ codec.s.Time.sec.mid < 128
              \/ codec.s.Time.sec.hi = -1 /\ codec.s.Time.sec.mid >= 16777216 - 128
              \/ codec.s.Time = ZeroTime
           /\ \A i \in 1..16 :
                  /\ codec.data[8 + i] = codec.s.SID[i]
                  /\ codec.data[24 + i] = codec.s.UID[i]
                  /\ codec.data[40 + i] = codec.s.RealUID[i]
           /\ \A i \in 1..Len(codec.s.State) : codec.data[56 + i] = codec.s.State[i]

\* C19 witness: a Session with zero identifiers, a Time of 256 seconds and more and
\* a State of two bytes is encoded in 58 bytes.
C19_Witness ==
    /\ codec.pc = "encoded"
    /\ codec.s.SID = NilUUID
    /\ codec.s.UID = NilUUID
    /\ codec.s.RealUID = NilUUID
    /\ codec.s.Time = Date(StartClock)
    /\ codec.data[7] = 1
    /\ Len(codec.s.State) = 2
    /\ Len(codec.data) = 58

\* C14: a successful Save sets exactly one cookie, with the store's name, Path
\* "/", the store's HttpOnly and Secure, Expires at the Time it stamped on the
\* session (the time of the call) plus the TTL, and MaxAge the whole seconds of
\* the TTL, the rest dropped: none for a TTL of less than a second.
C14_SaveCookieAttributes ==
    (saved.called /\ ~saved.err)
        => /\ Len(saved.set) = 1
           /\ saved.set[1].Name = stores[saved.store].Name
           /\ saved.set[1].Path = "/"
           /\ saved.set[1].HttpOnly = stores[saved.store].HttpOnly
           /\ saved.set[1].Secure = stores[saved.store].Secure
           /\ saved.after.Time = Date(saved.at)
           /\ saved.set[1].Expires = saved.at + stores[saved.store].TTL
           /\ saved.set[1].MaxAge * Second <= stores[saved.store].TTL
           /\ stores[saved.store].TTL < (saved.set[1].MaxAge + 1) * Second

\* C14 witness: a store with a TTL of less than a second, and Secure, has saved
\* a session off the whole second.
C14_Witness ==
    /\ saved.called
    /\ ~saved.err
    /\ stores[saved.store].TTL > 0
    /\ stores[saved.store].TTL < Second
    /\ stores[saved.store].Secure
    /\ saved.at % Second # 0
    /\ saved.set[1].MaxAge = 0
    /\ saved.set[1].Expires > saved.at

\* C15: whatever made Get reject the request (no cookie, bad base64, a box that
\* does not open, a plaintext that does not decode, expiry), the session it
\* returns is the zero Session but for a SID, and the SID is new: no cookie
\* carries it and no earlier Get generated it.
C15_UniformRejection ==
    Anonymous
        => /\ got.cause \in {"cookie", "base64", "open", "unmarshal", "expired"}
           /\ got.session = [ZeroSession EXCEPT !.SID = got.session.SID]
           /\ ~got.session.Valid
           /\ got.session.Time = ZeroTime
           /\ FreshSID

\* C15 witness: the cookie of a logged-in session with a State has expired, and
\* Get has returned.
C15_Witness ==
    \E i \in 1..Len(saves) :
        /\ Presents(i)
        /\ got.store = saves[i].store
        /\ saves[i].session.UID # NilUUID
        /\ saves[i].session.State # <<>>
        /\ Anonymous
        /\ got.cause = "expired"
        /\ got.session.UID = NilUUID
        /\ got.session.State = <<>>

\* C17: a successful Save leaves the session it was passed as it was but for
\* Time, which is the time of the call; a session that was not valid is not
\* valid afterwards, and that is the session the handler holds.
C17_SaveFrame ==
    (saved.called /\ ~saved.err)
        => /\ saved.after = [saved.before EXCEPT !.Time = Date(saved.at)]
           /\ saved.after.Valid = saved.before.Valid
           /\ saved.at = now
           /\ ss = saved.after

\* C17 witness: a session that was not valid, with a user and a State, was saved.
C17_Witness ==
    /\ saved.called
    /\ ~saved.err
    /\ ~saved.before.Valid
    /\ saved.before.Time = ZeroTime
    /\ saved.before.UID # NilUUID
    /\ saved.before.State # <<>>
    /\ ~ss.Valid
    /\ ss.Time = Date(now)

\* C20: whether Get accepts a cookie that Save has set rests on the value, the
\* key and TTL of the store that reads it and the time, and on no call made in
\* between: a copy of the cookie is accepted, with the saved fields, by every
\* store of the same secret until the Time it carries (the saved Time in whole
\* seconds) plus that store's TTL has passed, and not after, whether or not Clear
\* was called or a later Save set a newer cookie.
C20_StatelessAcceptance ==
    \A i \in 1..Len(saves) :
        ( /\ Presents(i)
          /\ stores[got.store].Key = stores[saves[i].store].Key )
        => IF got.at - Ticks(WholeSeconds(saves[i].session.Time)) <= stores[got.store].TTL
           THEN /\ ~got.panic
                /\ got.cause = "valid"
                /\ got.session.Valid
                /\ SameFields(i)
           ELSE /\ got.cause = "expired"
                /\ ~got.session.Valid

\* C20 witness: a cookie was set, then Clear was called, and later a copy of the
\* cookie is accepted.
C20_Witness ==
    /\ Len(jar) = 2
    /\ Len(saves) = 1
    /\ jar[1].Value = saves[1].value
    /\ jar[2].Value = <<>>
    /\ jar[2].MaxAge = -1
    /\ Presents(1)
    /\ got.at > Ticks(saves[1].session.Time)
    /\ got.session.Valid
    /\ got.session.UID # NilUUID

\* C16 (as claimed): in a chain Save, Get, Save, Get, ... on one store, where
\* every Get reads the cookie of the Save before it within the TTL of that Save
\* and its session goes to the next Save, every Get returns a valid session with
\* the SID of the first saved session (unless the random source fails).
C16_SIDStableUnderRenewal ==
    ( /\ got.called
      /\ got.request # NoCookies
      /\ ~RandomSourceFailed
      /\ saves # <<>>
      /\ Presents(Len(saves))
      /\ got.store = saves[1].store
      /\ got.at >= Ticks(LastSave.session.Time)
      /\ got.at - Ticks(LastSave.session.Time) <= stores[got.store].TTL )
    => /\ ~got.panic
       /\ got.session.Valid
       /\ got.session.SID = saves[1].session.SID

\* C18: no statement of Get, Save or Clear changes a field of a Store, and
\* whatever other calls ran in between its statements, a call that has returned
\* has returned what the call by itself returns for the same request or session,
\* the same reading of the clock and of the random source, and (for Save) the
\* same state of the cipher.
C18_StoreImmutableConcurrent ==
    /\ stores = InitStores
    /\ \A th \in Threads :
        LET l == threads[th]
            s == InitStores[SharedStore]
        IN  /\ l.pc \in {"got", "panicked"}
                 => \E res \in {Get(s, l.r, l.rnd, l.t, boxes)} :
                        /\ l.got.panic = res.panic
                        /\ l.got.session = res.session
                        /\ l.got.cause = res.cause
            /\ l.pc = "saved"
                 => \E res \in {Save(s, l.given, l.rnd, l.t, l.bx)} :
                        /\ l.saved.err = res.err
                        /\ l.saved.ss = res.ss
                        /\ l.saved.set = res.set
            /\ l.pc = "cleared" => l.cleared = <<Clear(s)>>

\* C18 witness: a goroutine is within Save on the shared Store, between stamping
\* the session and setting the cookie, and a Get of the other goroutine on that
\* Store, which read the random source after that Save read its nonce, has
\* returned.
C18_Witness ==
    /\ threads["t2"].pc = "save:cookie"
    /\ threads["t2"].rnd.ok
    /\ threads["t1"].pc = "got"
    /\ threads["t1"].store = threads["t2"].store
    /\ threads["t1"].got.cause = "cookie"
    /\ threads["t1"].rnd.ok
    /\ threads["t1"].rnd.c > threads["t2"].rnd.c

====
